---- MODULE Spec2Model ----
(***************************************************************************)
(* Model of the command line option defaults store of the `ocd` CLI        *)
(* (src/ocd/defaults/__init__.py) and of the session that owns it          *)
(* (src/ocd/__main__.py).                                                  *)
(*                                                                         *)
(* The persisted store is a sqlite3 file `defaults.db` holding one table   *)
(* `defaults`; a record is a positional 15-tuple.  Python values are       *)
(* modelled as tagged records so that the conversions the code performs    *)
(* (sqlite column affinity on INSERT, repr() for the change snapshot,      *)
(* str() for the display table) are computed, not assumed away.  Floats    *)
(* are kept in tenths: PyFloat(9) is 0.9.                                  *)
(***************************************************************************)
EXTENDS Integers, Sequences, FiniteSets, TLC

(***************************************************************************)
(* Bounds                                                                  *)
(***************************************************************************)
\* most records the table may hold before save_to_db is no longer explored
MaxRows == 3
\* most attribute assignments explored over a run
MaxSets == 2
\* most fields differing from their default in a record that is round-tripped
MaxChanged == 2

(***************************************************************************)
(* Python values                                                           *)
(***************************************************************************)
PyInt(k) == [t |-> "int", n |-> k, s |-> ""]
PyFloat(tenths) == [t |-> "float", n |-> tenths, s |-> ""]
PyStrV(x) == [t |-> "str", n |-> 0, s |-> x]
None == [t |-> "NoneType", n |-> 0, s |-> ""]

\* text of a float held in tenths, as both repr() and sqlite render it
FloatText(tenths) == ToString(tenths \div 10) \o "." \o ToString(tenths % 10)

\* str(value)
PyStr(v) ==
    CASE v.t = "int" -> ToString(v.n)
      [] v.t = "float" -> FloatText(v.n)
      [] v.t = "str" -> v.s
      [] OTHER -> "None"

\* repr(value): a str is quoted, so '2' and 2 differ
PyRepr(v) ==
    IF v.t = "str" THEN "'" \o v.s \o "'" ELSE PyStr(v)

(***************************************************************************)
(* The fixed record layout                                                 *)
(***************************************************************************)
get_default_environment == "ocd"

\* dataclass fields, in declaration order (fields(self))
FieldNames ==
    << "CODEX_TEMPERATURE", "CODEX_MAX_TOKENS", "CODEX_MODEL_ID",
       "EDIT_MODEL_ID", "EMBEDDING_MODEL_ID", "ENVIRONMENT",
       "IMAGES_MAX_N", "IMAGES_MAX_PROMPT", "IMAGES_N",
       "IMAGES_RESPONSE_FORMAT", "IMAGES_SIZE", "MAX_TOKENS",
       "MODEL_ID", "N", "TEMPERATURE" >>

\* field_.type.__name__ of each dataclass field, in declaration order
FieldTypes ==
    << "float", "int", "str", "str", "str", "str", "int", "int", "int",
       "str", "str", "int", "str", "int", "float" >>

NumFields == Len(FieldNames)

FieldSet == {FieldNames[i] : i \in 1..NumFields}

default_state ==
    [f \in FieldSet |->
        CASE f = "CODEX_TEMPERATURE" -> PyFloat(9)
          [] f = "CODEX_MAX_TOKENS" -> PyInt(500)
          [] f = "CODEX_MODEL_ID" -> PyStrV("code-davinci-002")
          [] f = "EDIT_MODEL_ID" -> PyStrV("text-davinci-edit-001")
          [] f = "EMBEDDING_MODEL_ID" -> PyStrV("text-embedding-ada-002")
          [] f = "ENVIRONMENT" -> PyStrV(get_default_environment)
          [] f = "IMAGES_MAX_N" -> PyInt(10)
          [] f = "IMAGES_MAX_PROMPT" -> PyInt(1000)
          [] f = "IMAGES_N" -> PyInt(1)
          [] f = "IMAGES_RESPONSE_FORMAT" -> PyStrV("b64_json")
          [] f = "IMAGES_SIZE" -> PyStrV("512x512")
          [] f = "MAX_TOKENS" -> PyInt(16)
          [] f = "MODEL_ID" -> PyStrV("gpt-3.5-turbo")
          [] f = "N" -> PyInt(1)
          [] f = "TEMPERATURE" -> PyFloat(9)]

\* the keys of default_state, in the order the OrderedDict literal gives
default_state_keys ==
    << "CODEX_TEMPERATURE", "CODEX_MAX_TOKENS", "CODEX_MODEL_ID",
       "EDIT_MODEL_ID", "EMBEDDING_MODEL_ID", "ENVIRONMENT",
       "IMAGES_MAX_N", "IMAGES_MAX_PROMPT", "IMAGES_N",
       "IMAGES_RESPONSE_FORMAT", "IMAGES_SIZE", "MAX_TOKENS",
       "MODEL_ID", "N", "TEMPERATURE" >>

\* declared type of each column of CREATE TABLE defaults, in column order
ColumnTypes ==
    << "REAL", "INTEGER", "TEXT", "TEXT", "TEXT", "TEXT", "INTEGER",
       "INTEGER", "INTEGER", "TEXT", "TEXT", "INTEGER", "TEXT", "INTEGER",
       "REAL" >>

\* the number a text converts to under a numeric column affinity, or None
NumericText(x) ==
    CASE x = "2" -> PyInt(2)
      [] OTHER -> None

\* what sqlite stores, and sqlite3 hands back, for a value bound to a
\* column of the given declared type
Affinity(coltype, v) ==
    CASE v.t = "NoneType" -> v
      [] coltype = "TEXT" -> PyStrV(PyStr(v))
      [] coltype = "REAL" ->
            CASE v.t = "int" -> PyFloat(v.n * 10)
              [] v.t = "float" -> v
              [] OTHER ->
                    IF NumericText(v.s) = None THEN v
                    ELSE PyFloat(NumericText(v.s).n * 10)
      [] OTHER ->
            CASE v.t = "int" -> v
              [] v.t = "float" ->
                    IF v.n % 10 = 0 THEN PyInt(v.n \div 10) ELSE v
              [] OTHER ->
                    IF NumericText(v.s) = None THEN v ELSE NumericText(v.s)

\* the class attributes of ocd.utils.Defaults that subcommands read
utils_Defaults ==
    [ EDIT_MODEL_ID |-> PyStrV("text-davinci-edit-001"),
      IMAGES_N |-> PyInt(1),
      IMAGES_RESPONSE_FORMATS |-> << PyStrV("b64_json"), PyStrV("url") >>,
      IMAGES_SIZES |-> << PyStrV("256x256"), PyStrV("512x512"),
                          PyStrV("1024x1024") >>,
      MAX_TOKENS |-> PyInt(16),
      MODEL_ID |-> PyStrV("curie-instruct-beta"),
      TEMPERATURE |-> PyStrV("0.9") ]

\* float(arg) for the texts given as option defaults
FloatOfText(x) ==
    CASE x = "0.9" -> PyFloat(9)
      [] x = "0.0" -> PyFloat(0)
      [] OTHER -> None

\* range_checker of ranged_type(float, 0.0, 1.0), which argparse applies to
\* a default only when the default is a string
ranged_type_float(v) ==
    IF v.t = "str" THEN FloatOfText(v.s) ELSE v

(***************************************************************************)
(* State                                                                   *)
(***************************************************************************)
VARIABLES
    dbfile,             \* defaults_db_path exists
    dbtable,            \* the file holds the table `defaults`
    rows,               \* the records of the table, in rowid order
    pc,                 \* "idle": no process; "running": a session is open
    state,              \* the dataclass fields of the Defaults instance
    extra,              \* attribute names added to the instance besides them
    defaults_original,  \* OCDApp.defaults_original
    unlinked,           \* conn refers to a file delete_db has removed
    opened,             \* how the session was opened: loaded, initialized
    result,             \* what the last get / index / get_state returned
    err,                \* the exception the last operation raised
    op,                 \* the last operation
    nsets,              \* attribute assignments made so far
    environment,        \* options.environment of the running session
    creator,            \* the environment of the session that made the file
    bpc,                \* where prepare_to_run_command stands
    cmd_name,           \* cmd.cmd_name
    environ_key,        \* os.environ's OPENAI_API_KEY, None when unset
    secret,             \* the secrets store's openai_api_key, None when unset
    api_key,            \* openai.api_key
    isatty,             \* sys.stdin.isatty()
    force_browser,      \* options.force_browser
    events,             \* prompts, launches and secret calls, in order
    outcome,            \* how prepare_to_run_command ended
    args                \* the arguments and surroundings of the command run

\* the session's environment selector and the store's provenance
evars == << environment, creator >>

\* the state of the API key bootstrap
bvars == << bpc, cmd_name, environ_key, secret, api_key, isatty,
            force_browser, events, outcome, args >>

vars == << dbfile, dbtable, rows, pc, state, extra, defaults_original,
           unlinked, opened, result, err, op, nsets, evars, bvars >>

\* the persisted store
store == << dbfile, dbtable, rows >>

\* the instance before any field is assigned, and after the process ends
NoState == [f \in FieldSet |-> None]

NoResult == << >>

\* names that are no attribute of the instance or its class
OtherNames == { "FOO" }

\* the type annotation of a field
TypeOf(name) ==
    FieldTypes[CHOOSE i \in 1..NumFields : FieldNames[i] = name]

\* values assigned to an attribute besides its default: one of the declared
\* type, and for one column of each affinity a value of another type
AltValues(name) ==
    CASE name = "CODEX_TEMPERATURE" -> { PyFloat(5), PyInt(2) }
      [] name = "MAX_TOKENS" -> { PyInt(2), PyStrV("2") }
      [] name = "MODEL_ID" -> { PyStrV("gpt-4"), PyInt(2) }
      [] name \notin FieldSet -> { PyInt(2) }
      [] TypeOf(name) = "float" -> { PyFloat(5) }
      [] TypeOf(name) = "int" -> { PyInt(2) }
      [] OTHER -> { PyStrV("gpt-4") }

SetValues(name) ==
    AltValues(name)
        \cup (IF name \in FieldSet THEN { default_state[name] } ELSE {})

\* names assigned to: a column of each affinity, one of each pair of fields
\* sharing a default (CODEX_TEMPERATURE/TEMPERATURE, IMAGES_N/N), and a name
\* that is no field
SetNames == { "CODEX_TEMPERATURE", "MAX_TOKENS", "MODEL_ID", "N" }
                \cup OtherNames

\* names read back with getattr and index
ReadNames == { "MODEL_ID" } \cup OtherNames

\* subcommands whose options take their default from a defaults object
Commands == { "completions create", "edits create", "images create",
              "code python docstring" }

\* environment selectors given with -e
Environments == { "ocd", "other" }

\* failures of the storage layer at open, by the message sqlite raises
Faults == { "none", "unable to open database file", "database is locked",
            "file is not a database" }

(***************************************************************************)
(* Pure parts of the Defaults methods                                      *)
(***************************************************************************)
\* str(self.defaults): the dataclass repr, one name=repr pair per field
ReprDefaults(st) ==
    [i \in 1..NumFields |-> << FieldNames[i], PyRepr(st[FieldNames[i]]) >>]

\* the INSERT tuple with self.N and self.IMAGES_N in each other's place
InsertTuple_swapped(st) ==
    << st["CODEX_TEMPERATURE"], st["CODEX_MAX_TOKENS"],
       st["CODEX_MODEL_ID"], st["EDIT_MODEL_ID"],
       st["EMBEDDING_MODEL_ID"], st["ENVIRONMENT"], st["IMAGES_MAX_N"],
       st["IMAGES_MAX_PROMPT"], st["N"],
       st["IMAGES_RESPONSE_FORMAT"], st["IMAGES_SIZE"], st["MAX_TOKENS"],
       st["MODEL_ID"], st["IMAGES_N"], st["TEMPERATURE"] >>

\* the positional tuple save_to_db binds to the INSERT
InsertTuple(st) ==
    << st["CODEX_TEMPERATURE"], st["CODEX_MAX_TOKENS"],
       st["CODEX_MODEL_ID"], st["EDIT_MODEL_ID"],
       st["EMBEDDING_MODEL_ID"], st["ENVIRONMENT"], st["IMAGES_MAX_N"],
       st["IMAGES_MAX_PROMPT"], st["IMAGES_N"],
       st["IMAGES_RESPONSE_FORMAT"], st["IMAGES_SIZE"], st["MAX_TOKENS"],
       st["MODEL_ID"], st["N"], st["TEMPERATURE"] >>

\* the record the INSERT leaves in the table
StoredRow(st) ==
    [i \in 1..NumFields |-> Affinity(ColumnTypes[i], InsertTuple(st)[i])]

\* a save that keeps the newest record only
save_to_db_replace(rs, st) ==
    << StoredRow(st) >>

\* the table after save_to_db: CREATE TABLE IF NOT EXISTS, INSERT, commit
save_to_db(rs, st) ==
    Append(rs, StoredRow(st))

\* fetchone() called once too often: the second record when there is one
fetchone_second(rs) == rs[IF Len(rs) > 1 THEN 2 ELSE 1]

\* SELECT * FROM defaults; fetchone(): the first record in rowid order
fetchone(rs) == rs[1]

\* the fields retrieve_from_db assigns from the fetched record
retrieve_from_db(rs) ==
    [f \in FieldSet |->
        fetchone(rs)[CHOOSE i \in 1..NumFields : FieldNames[i] = f]]

\* reset from the option table of ocd.utils, whose MODEL_ID is another
reset_to_defaults_utils ==
    [f \in FieldSet |->
        IF f = "MODEL_ID" THEN PyStrV("curie-instruct-beta")
        ELSE default_state[f]]

reset_to_defaults == [f \in FieldSet |-> default_state[f]]

\* get_state showing repr(value) where the code shows str(value)
get_state_repr(st, columns) ==
    (IF columns THEN << << "default", "type", "value" >> >> ELSE << >>)
    \o [i \in 1..NumFields |->
            << FieldNames[i], FieldTypes[i], PyRepr(st[FieldNames[i]]) >>]

\* get_state(columns)
get_state(st, columns) ==
    (IF columns THEN << << "default", "type", "value" >> >> ELSE << >>)
    \o [i \in 1..NumFields |->
            << FieldNames[i], FieldTypes[i], PyStr(st[FieldNames[i]]) >>]

\* field_names().index(variable), 0-based
index(variable) ==
    (CHOOSE i \in 1..NumFields : FieldNames[i] = variable) - 1

\* no command is being prepared
NoCommand ==
    /\ bpc = "none"
    /\ cmd_name = "none"
    /\ environ_key = None
    /\ secret = None
    /\ api_key = None
    /\ isatty = FALSE
    /\ force_browser = FALSE
    /\ events = << >>
    /\ outcome = "none"
    /\ args = << >>

(***************************************************************************)
(* Initial state: no process, nothing on disk                              *)
(***************************************************************************)
Init ==
    /\ dbfile = FALSE
    /\ dbtable = FALSE
    /\ rows = << >>
    /\ pc = "idle"
    /\ state = NoState
    /\ extra = {}
    /\ defaults_original = << >>
    /\ unlinked = FALSE
    /\ opened = "none"
    /\ result = NoResult
    /\ err = "none"
    /\ op = "none"
    /\ nsets = 0
    /\ environment = "none"
    /\ creator = "none"
    /\ NoCommand

(***************************************************************************)
(* Operations                                                              *)
(***************************************************************************)
\* __post_init__ recovering from every failure as from a missing table
Open_recover_all(fault, env) ==
    /\ pc = "idle"
    /\ fault \in { "database is locked", "file is not a database" } => dbfile
    /\ op' = "open"
    /\ result' = NoResult
    /\ UNCHANGED << extra, unlinked, nsets, bvars >>
    /\ IF fault = "unable to open database file"
       THEN /\ err' = fault
            /\ UNCHANGED << dbfile, dbtable, rows, pc, state,
                            defaults_original, opened, evars >>
       ELSE IF fault = "none" /\ dbtable /\ Len(rows) > 0
       THEN /\ state' = retrieve_from_db(rows)
            /\ defaults_original' = ReprDefaults(state')
            /\ pc' = "running"
            /\ err' = "none"
            /\ opened' = "loaded"
            /\ environment' = env
            /\ UNCHANGED << dbfile, dbtable, rows, creator >>
       ELSE /\ state' = reset_to_defaults
            /\ dbfile' = TRUE
            /\ dbtable' = TRUE
            /\ rows' = save_to_db(rows, state')
            /\ defaults_original' = ReprDefaults(state')
            /\ pc' = "running"
            /\ err' = "none"
            /\ opened' = "initialized"
            /\ environment' = env
            /\ creator' = environment'

\* an open that writes the record it loaded back to the table
Open_resave(fault, env) ==
    /\ pc = "idle"
    /\ fault \in { "database is locked", "file is not a database" } => dbfile
    /\ op' = "open"
    /\ result' = NoResult
    /\ UNCHANGED << extra, unlinked, nsets, bvars >>
    /\ IF fault # "none"
       THEN /\ err' = fault
            /\ UNCHANGED << dbfile, dbtable, rows, pc, state,
                            defaults_original, opened, evars >>
       ELSE IF dbtable /\ Len(rows) > 0
       THEN /\ state' = retrieve_from_db(rows)
            /\ rows' = IF Len(rows) < MaxRows THEN save_to_db(rows, state')
                       ELSE Tail(rows) \o << StoredRow(state') >>
            /\ defaults_original' = ReprDefaults(state')
            /\ pc' = "running"
            /\ err' = "none"
            /\ opened' = "loaded"
            /\ environment' = env
            /\ UNCHANGED << dbfile, dbtable, creator >>
       ELSE /\ state' = reset_to_defaults
            /\ dbfile' = TRUE
            /\ dbtable' = TRUE
            /\ rows' = save_to_db(rows, state')
            /\ defaults_original' = ReprDefaults(state')
            /\ pc' = "running"
            /\ err' = "none"
            /\ opened' = "initialized"
            /\ environment' = env
            /\ creator' = environment'

\* an open that recovers from a missing table only, not from an empty one
Open_no_recover(fault, env) ==
    /\ pc = "idle"
    /\ fault \in { "database is locked", "file is not a database" } => dbfile
    /\ op' = "open"
    /\ result' = NoResult
    /\ UNCHANGED << extra, unlinked, nsets, bvars >>
    /\ IF fault # "none"
       THEN /\ err' = fault
            /\ UNCHANGED << dbfile, dbtable, rows, pc, state,
                            defaults_original, opened, evars >>
       ELSE IF dbtable /\ Len(rows) > 0
       THEN /\ state' = retrieve_from_db(rows)
            /\ defaults_original' = ReprDefaults(state')
            /\ pc' = "running"
            /\ err' = "none"
            /\ opened' = "loaded"
            /\ environment' = env
            /\ UNCHANGED << dbfile, dbtable, rows, creator >>
       ELSE IF dbtable
       THEN /\ err' = "TypeError"
            /\ UNCHANGED << dbfile, dbtable, rows, pc, state,
                            defaults_original, opened, evars >>
       ELSE /\ state' = reset_to_defaults
            /\ dbfile' = TRUE
            /\ dbtable' = TRUE
            /\ rows' = save_to_db(rows, state')
            /\ defaults_original' = ReprDefaults(state')
            /\ pc' = "running"
            /\ err' = "none"
            /\ opened' = "initialized"
            /\ environment' = env
            /\ creator' = environment'

\* Process start: `defaults = Defaults()` runs __post_init__, then
\* OCDApp.__init__ snapshots str(self.defaults).  A lock or a corrupt file
\* needs a file to be there.
Open(fault, env) ==
    /\ pc = "idle"
    /\ fault \in { "database is locked", "file is not a database" } => dbfile
    /\ op' = "open"
    /\ result' = NoResult
    /\ UNCHANGED << extra, unlinked, nsets, bvars >>
    /\ IF fault # "none"
       THEN \* connect raises, or the SELECT raises an error that is not
            \* an OperationalError naming 'no such table': it propagates
            /\ err' = fault
            /\ UNCHANGED << dbfile, dbtable, rows, pc, state,
                            defaults_original, opened, evars >>
       ELSE IF dbtable /\ Len(rows) > 0
       THEN /\ state' = retrieve_from_db(rows)
            /\ defaults_original' = ReprDefaults(state')
            /\ pc' = "running"
            /\ err' = "none"
            /\ opened' = "loaded"
            /\ environment' = env
            /\ UNCHANGED << dbfile, dbtable, rows, creator >>
       ELSE \* 'no such table', raised by sqlite or by retrieve_from_db
            /\ state' = reset_to_defaults
            /\ dbfile' = TRUE
            /\ dbtable' = TRUE
            /\ rows' = save_to_db(rows, state')
            /\ defaults_original' = ReprDefaults(state')
            /\ pc' = "running"
            /\ err' = "none"
            /\ opened' = "initialized"
            /\ environment' = env
            /\ creator' = environment'

\* an assignment that also writes the record through to the table
Set_autosave(name, value) ==
    /\ pc = "running"
    /\ nsets < MaxSets
    /\ nsets' = nsets + 1
    /\ op' = "set"
    /\ result' = NoResult
    /\ err' = "none"
    /\ IF name \in FieldSet
       THEN /\ state' = [state EXCEPT ![name] = value]
            /\ extra' = extra
       ELSE /\ extra' = extra \cup { name }
            /\ state' = state
    /\ rows' = IF Len(rows) < MaxRows THEN save_to_db(rows, state') ELSE rows
    /\ UNCHANGED << dbfile, dbtable, pc, defaults_original, unlinked,
                    opened >>
    /\ UNCHANGED << evars, bvars >>

\* setattr(defaults, name, value)
Set(name, value) ==
    /\ pc = "running"
    /\ nsets < MaxSets
    /\ nsets' = nsets + 1
    /\ op' = "set"
    /\ result' = NoResult
    /\ err' = "none"
    /\ IF name \in FieldSet
       THEN /\ state' = [state EXCEPT ![name] = value]
            /\ extra' = extra
       ELSE /\ extra' = extra \cup { name }
            /\ state' = state
    /\ UNCHANGED << dbfile, dbtable, rows, pc, defaults_original, unlinked,
                    opened >>
    /\ UNCHANGED << evars, bvars >>

\* getattr(defaults, name, None): an unknown name reads as None
Get_default(name) ==
    /\ pc = "running"
    /\ op' = "get"
    /\ IF name \in FieldSet
       THEN result' = << state[name] >>
       ELSE IF name \in extra
       THEN result' = << PyInt(2) >>
       ELSE result' = << None >>
    /\ err' = "none"
    /\ UNCHANGED << dbfile, dbtable, rows, pc, state, extra,
                    defaults_original, unlinked, opened, nsets >>
    /\ UNCHANGED << evars, bvars >>

\* getattr(defaults, name)
Get(name) ==
    /\ pc = "running"
    /\ op' = "get"
    /\ IF name \in FieldSet
       THEN /\ result' = << state[name] >>
            /\ err' = "none"
       ELSE IF name \in extra
       THEN /\ result' = << PyInt(2) >>
            /\ err' = "none"
       ELSE /\ result' = NoResult
            /\ err' = "AttributeError"
    /\ UNCHANGED << dbfile, dbtable, rows, pc, state, extra,
                    defaults_original, unlinked, opened, nsets >>
    /\ UNCHANGED << evars, bvars >>

\* defaults.index(variable)
Index(variable) ==
    /\ pc = "running"
    /\ op' = "index"
    /\ IF variable \in FieldSet
       THEN /\ result' = << index(variable) >>
            /\ err' = "none"
       ELSE /\ result' = NoResult
            /\ err' = "ValueError"
    /\ UNCHANGED << dbfile, dbtable, rows, pc, state, extra,
                    defaults_original, unlinked, opened, nsets >>
    /\ UNCHANGED << evars, bvars >>

\* a reset that also writes the defaults through to the table
Reset_autosave ==
    /\ pc = "running"
    /\ op' = "reset"
    /\ state' = reset_to_defaults
    /\ result' = NoResult
    /\ err' = "none"
    /\ rows' = IF Len(rows) < MaxRows THEN save_to_db(rows, state') ELSE rows
    /\ UNCHANGED << dbfile, dbtable, pc, extra, defaults_original,
                    unlinked, opened, nsets >>
    /\ UNCHANGED << evars, bvars >>

\* defaults.reset_to_defaults()
Reset ==
    /\ pc = "running"
    /\ op' = "reset"
    /\ state' = reset_to_defaults
    /\ result' = NoResult
    /\ err' = "none"
    /\ UNCHANGED << dbfile, dbtable, rows, pc, extra, defaults_original,
                    unlinked, opened, nsets >>
    /\ UNCHANGED << evars, bvars >>

\* defaults.get_state(columns)
GetState(columns) ==
    /\ pc = "running"
    /\ op' = "get_state"
    /\ result' = get_state(state, columns)
    /\ err' = "none"
    /\ UNCHANGED << dbfile, dbtable, rows, pc, state, extra,
                    defaults_original, unlinked, opened, nsets >>
    /\ UNCHANGED << evars, bvars >>

\* The effect of save_to_db on the store.  Once delete_db has unlinked the
\* file the connection no longer writes to the path: sqlite either refuses
\* (attempt to write a readonly database) or writes to the orphaned inode.
SaveEffect ==
    IF unlinked
    THEN /\ err' \in { "none", "attempt to write a readonly database" }
         /\ UNCHANGED << dbfile, dbtable, rows >>
    ELSE /\ Len(rows) < MaxRows
         /\ rows' = save_to_db(rows, state)
         /\ dbtable' = TRUE
         /\ dbfile' = dbfile
         /\ err' = "none"

\* defaults.save_to_db()
Save ==
    /\ pc = "running"
    /\ op' = "save"
    /\ result' = NoResult
    /\ SaveEffect
    /\ UNCHANGED << pc, state, extra, defaults_original, unlinked, opened,
                    nsets >>
    /\ UNCHANGED << evars, bvars >>

\* a delete that empties the table and leaves the file in place
Delete_truncate ==
    /\ pc = "running"
    /\ op' = "delete"
    /\ rows' = << >>
    /\ unlinked' = TRUE
    /\ result' = NoResult
    /\ err' = "none"
    /\ UNCHANGED << dbfile, dbtable, pc, state, extra, defaults_original,
                    opened, nsets >>
    /\ creator' = "none"
    /\ UNCHANGED << environment, bvars >>

\* defaults.delete_db()
Delete ==
    /\ pc = "running"
    /\ op' = "delete"
    /\ dbfile' = FALSE
    /\ dbtable' = FALSE
    /\ rows' = << >>
    /\ unlinked' = TRUE
    /\ result' = NoResult
    /\ err' = "none"
    /\ UNCHANGED << pc, state, extra, defaults_original, opened, nsets >>
    /\ creator' = "none"
    /\ UNCHANGED << environment, bvars >>

\* the snapshot compared by identity: two str() results are never the same
Changed_identity == TRUE

\* whether clean_up finds the defaults changed
Changed == ReprDefaults(state) # defaults_original

\* OCDApp.clean_up, after which the process ends
CleanUp ==
    /\ pc = "running"
    /\ op' = "clean_up"
    /\ result' = NoResult
    /\ IF Changed
       THEN SaveEffect
       ELSE /\ err' = "none"
            /\ UNCHANGED << dbfile, dbtable, rows >>
    /\ pc' = "idle"
    /\ state' = NoState
    /\ extra' = {}
    /\ defaults_original' = << >>
    /\ unlinked' = FALSE
    /\ opened' = "none"
    /\ nsets' = nsets
    /\ environment' = "none"
    /\ UNCHANGED << creator, bvars >>

\* the defaults get_parser gives the options that have a store field, by
\* the name of that field; st is self.app.defaults
OptionDefaults(cmd, st) ==
    CASE cmd = "completions create" ->
            [ MODEL_ID |-> utils_Defaults.MODEL_ID,
              MAX_TOKENS |-> utils_Defaults.MAX_TOKENS,
              TEMPERATURE |-> ranged_type_float(utils_Defaults.TEMPERATURE) ]
      [] cmd = "images create" ->
            [ IMAGES_N |-> utils_Defaults.IMAGES_N,
              IMAGES_SIZE |-> utils_Defaults.IMAGES_SIZES[1],
              IMAGES_RESPONSE_FORMAT |->
                  utils_Defaults.IMAGES_RESPONSE_FORMATS[1] ]
      [] OTHER ->
            [ CODEX_MODEL_ID |-> st["CODEX_MODEL_ID"],
              CODEX_TEMPERATURE |->
                  ranged_type_float(st["CODEX_TEMPERATURE"]),
              CODEX_MAX_TOKENS |-> st["CODEX_MAX_TOKENS"] ]

\* cmd.get_parser(prog_name) followed by a parse with no flag given.  The
\* edits parser reads defaults.N, which ocd.utils.Defaults does not have.
GetParser(cmd) ==
    /\ pc = "running"
    /\ op' = "get_parser"
    /\ IF cmd = "edits create"
       THEN /\ result' = NoResult
            /\ err' = "AttributeError"
       ELSE /\ result' = << OptionDefaults(cmd, state) >>
            /\ err' = "none"
    /\ UNCHANGED << dbfile, dbtable, rows, pc, state, extra,
                    defaults_original, unlinked, opened, nsets, evars,
                    bvars >>

\* A second Defaults() on the same location while the first is alive:
\* __post_init__ finds a record and loads it into the new instance.
Reopen ==
    /\ pc = "running"
    /\ ~unlinked
    /\ dbtable
    /\ Len(rows) > 0
    /\ op' = "reopen"
    /\ result' = << retrieve_from_db(rows) >>
    /\ err' = "none"
    /\ UNCHANGED << dbfile, dbtable, rows, pc, state, extra,
                    defaults_original, unlinked, opened, nsets, evars,
                    bvars >>

Next ==
    \/ \E fault \in Faults : Open(fault, get_default_environment)
    \/ \E name \in SetNames :
            \E value \in SetValues(name) : Set(name, value)
    \/ \E name \in ReadNames : Get(name)
    \/ \E name \in ReadNames : Index(name)
    \/ Reset
    \/ \E columns \in BOOLEAN : GetState(columns)
    \/ Save
    \/ Delete
    \/ CleanUp

Spec == Init /\ [][Next]_vars

(***************************************************************************)
(* Sessions run with any environment selector in one working directory     *)
(***************************************************************************)
NextEnvironments ==
    \/ \E fault \in Faults : \E env \in Environments : Open(fault, env)
    \/ \E name \in SetNames :
            \E value \in SetValues(name) : Set(name, value)
    \/ Save
    \/ Delete
    \/ CleanUp

SpecEnvironments == Init /\ [][NextEnvironments]_vars

(***************************************************************************)
(* Sessions that build the parser of a subcommand                          *)
(***************************************************************************)
NextCommands ==
    \/ \E fault \in Faults : Open(fault, get_default_environment)
    \/ \E name \in SetNames :
            \E value \in SetValues(name) : Set(name, value)
    \/ Save
    \/ CleanUp
    \/ \E cmd \in Commands : GetParser(cmd)

SpecCommands == Init /\ [][NextCommands]_vars

(***************************************************************************)
(* Sessions over a store whose first save was cut short                    *)
(***************************************************************************)
\* The process is killed inside the first save_to_db, after CREATE TABLE has
\* taken effect and before the INSERT is committed: the file holds the
\* table and no record.
OpenKilled ==
    /\ pc = "idle"
    /\ ~(dbtable /\ Len(rows) > 0)
    /\ op' = "killed"
    /\ dbfile' = TRUE
    /\ dbtable' = TRUE
    /\ rows' = rows
    /\ result' = NoResult
    /\ err' = "none"
    /\ args' = << "CREATE TABLE" >>
    /\ UNCHANGED << bpc, cmd_name, environ_key, secret, api_key, isatty,
                    force_browser, events, outcome >>
    /\ UNCHANGED << pc, state, extra, defaults_original, unlinked, opened,
                    nsets, evars >>

NextInterrupted ==
    \/ \E fault \in Faults : Open(fault, get_default_environment)
    \/ OpenKilled
    \/ \E name \in SetNames :
            \E value \in SetValues(name) : Set(name, value)
    \/ Save
    \/ CleanUp

SpecInterrupted == Init /\ [][NextInterrupted]_vars

(***************************************************************************)
(* The record layout on its own: an instance holding any fields saves into *)
(* an empty table and a second instance loads what was saved.              *)
(***************************************************************************)
\* the field assignments differing from the defaults in few fields
RoundTripStates ==
    UNION { { [f \in FieldSet |-> IF f \in S THEN g[f] ELSE default_state[f]] :
                g \in { h \in [S -> UNION { AltValues(f) : f \in S }] :
                            \A f \in S : h[f] \in AltValues(f) } } :
            S \in { T \in SUBSET FieldSet : Cardinality(T) <= MaxChanged } }

InitRoundTrip ==
    /\ dbfile = TRUE
    /\ dbtable = FALSE
    /\ rows = << >>
    /\ pc = "running"
    /\ state \in RoundTripStates
    /\ extra = {}
    /\ defaults_original = ReprDefaults(state)
    /\ unlinked = FALSE
    /\ opened = "initialized"
    /\ result = NoResult
    /\ err = "none"
    /\ op = "none"
    /\ nsets = 0
    /\ environment = "ocd"
    /\ creator = "ocd"
    /\ NoCommand

NextRoundTrip ==
    \/ Save
    \/ Reopen

SpecRoundTrip == InitRoundTrip /\ [][NextRoundTrip]_vars

(***************************************************************************)
(* Properties                                                              *)
(***************************************************************************)
\* the fields a fresh open of the location would load
FreshOpen ==
    IF dbtable /\ Len(rows) > 0 THEN retrieve_from_db(rows)
    ELSE [f \in FieldSet |-> default_state[f]]

\* the fields the running session loaded at open
Loaded ==
    IF opened = "loaded" THEN retrieve_from_db(rows)
    ELSE [f \in FieldSet |-> default_state[f]]

\* the record holding the built-in defaults, column by column
DefaultsRecord == [i \in 1..NumFields |-> default_state[FieldNames[i]]]

\* the display table of the built-in defaults, written out
DefaultsTable ==
    << << "CODEX_TEMPERATURE", "float", "0.9" >>,
       << "CODEX_MAX_TOKENS", "int", "500" >>,
       << "CODEX_MODEL_ID", "str", "code-davinci-002" >>,
       << "EDIT_MODEL_ID", "str", "text-davinci-edit-001" >>,
       << "EMBEDDING_MODEL_ID", "str", "text-embedding-ada-002" >>,
       << "ENVIRONMENT", "str", get_default_environment >>,
       << "IMAGES_MAX_N", "int", "10" >>,
       << "IMAGES_MAX_PROMPT", "int", "1000" >>,
       << "IMAGES_N", "int", "1" >>,
       << "IMAGES_RESPONSE_FORMAT", "str", "b64_json" >>,
       << "IMAGES_SIZE", "str", "512x512" >>,
       << "MAX_TOKENS", "int", "16" >>,
       << "MODEL_ID", "str", "gpt-3.5-turbo" >>,
       << "N", "int", "1" >>,
       << "TEMPERATURE", "float", "0.9" >> >>

\* C1 (as claimed): a fresh open of a store that has been saved to loads,
\* for every field, the value of the most recently saved record.
C1_FreshOpenLoadsLastSave ==
    (op = "open" /\ err = "none" /\ opened = "loaded")
        => \A i \in 1..NumFields :
                state[FieldNames[i]] = rows[Len(rows)][i]

\* C2 (as claimed): once the store has been opened it holds exactly one
\* record, whatever was set, reset and saved since.
C2_ExactlyOneRecord == dbfile => Len(rows) = 1

\* C3: opening a location with no backing file sets every field to its
\* built-in default and leaves exactly one record, holding those defaults.
C3_FirstOpenInitializes ==
    [][(~dbfile /\ op' = "open" /\ err' = "none")
        => /\ \A f \in FieldSet : state'[f] = default_state[f]
           /\ Len(rows') = 1
           /\ rows'[1] = DefaultsRecord]_vars

C3_Witness ==
    /\ op = "open"
    /\ opened = "initialized"
    /\ rows = << DefaultsRecord >>
    /\ state["MODEL_ID"] = PyStrV("gpt-3.5-turbo")

\* C4: an attribute assignment leaves the persisted store as it was, so a
\* fresh open returns for every field what it returned before the set.
C4_SetDoesNotPersist ==
    [][op' = "set" => (store' = store /\ FreshOpen' = FreshOpen)]_vars

C4_Witness ==
    /\ op = "set"
    /\ dbtable
    /\ \E f \in FieldSet : state[f] # FreshOpen[f]

\* C5: once a changed record has been saved and the defaults have been
\* saved after it, a fresh open returns the built-in default of every field.
C5_ResetSaveRestoresDefaults ==
    [][(/\ op' = "open"
        /\ err' = "none"
        /\ Len(rows) > 1
        /\ \E i \in 1..Len(rows) : rows[i] # DefaultsRecord
        /\ rows[Len(rows)] = DefaultsRecord)
        => \A f \in FieldSet : state'[f] = default_state[f]]_vars

C5_Witness ==
    /\ op = "open"
    /\ opened = "loaded"
    /\ Len(rows) = 3
    /\ rows[2][13] = PyStrV("gpt-4")
    /\ rows[3] = DefaultsRecord
    /\ state["MODEL_ID"] = PyStrV("gpt-3.5-turbo")

C7_ResetThenTable ==
    [][(op = "reset" /\ op' = "get_state")
        => /\ GetState(FALSE) => result' = DefaultsTable
           /\ GetState(TRUE) =>
                result' = << << "default", "type", "value" >> >>
                            \o DefaultsTable]_vars

C7_Witness ==
    /\ op = "get_state"
    /\ result = DefaultsTable
    /\ nsets > 0
    /\ \E i \in 1..Len(rows) : rows[i] # DefaultsRecord

\* C8: reset_to_defaults() leaves the persisted store as it was.
C8_ResetDoesNotPersist == [][op' = "reset" => store' = store]_vars

C8_Witness ==
    /\ op = "reset"
    /\ Len(rows) > 1
    /\ rows[Len(rows)] # DefaultsRecord
    /\ state["MODEL_ID"] = PyStrV("gpt-3.5-turbo")

\* C9: clean_up writes exactly one record, the current state, when some
\* field differs from the value loaded at open, and writes nothing when no
\* field differs (none was set, or each was set back).
C9_SaveIffChanged ==
    [][(op' = "clean_up" /\ ~unlinked)
        => IF \E f \in FieldSet : state[f] # Loaded[f]
           THEN /\ Len(rows') = Len(rows) + 1
                /\ SubSeq(rows', 1, Len(rows)) = rows
                /\ rows'[Len(rows')] = StoredRow(state)
           ELSE store' = store]_vars

C9_Witness ==
    /\ op = "clean_up"
    /\ err = "none"
    /\ nsets = 2
    /\ Len(rows) = 1

KeyLength == 51

\* n characters of key material
RECURSIVE Chars(_)
Chars(n) == IF n = 0 THEN "" ELSE "x" \o Chars(n - 1)

\* keys typed at the key prompt: a well-formed one, one too short, one too
\* long, one with another prefix, the bare prefix, and nothing
KeyInputs ==
    { "sk-" \o Chars(KeyLength - 3), "sk-" \o Chars(KeyLength - 4),
      "sk-" \o Chars(KeyLength - 2), "pk-" \o Chars(KeyLength - 3),
      "sk-", "" }

\* keys found in the environment or in the secrets store
KnownKeys == { "sk-" \o Chars(KeyLength - 3) }

\* answers typed at the browser prompt
Answers == { "y", "", "n", "N", "no" }

\* command names
CmdNames == { "help", "about", "models list" }

openai_base == "https://beta.openai.com"

\* the page handle_missing_api_key offers to open
api_keys_page == PyStrV(openai_base \o "/account/api-keys")

\* str.startswith
startswith(x, prefix) ==
    Len(x) >= Len(prefix) /\ SubSeq(x, 1, Len(prefix)) = prefix

\* a check of the prefix alone
valid_key_prefix(response) == startswith(response, "sk-")

\* the validation of the key typed in
valid_key(response) ==
    startswith(response, "sk-") /\ Len(response) = KeyLength

\* no answer declines
declined_never(response) ==
    FALSE

\* the answers that decline the browser: `response in ["n", "N"]`
declined(response) ==
    response \in { "n", "N" }

\* a launch whatever stdin is
open_browser_unguarded(page, tty, force) ==
    IF page = None
    THEN [ error |-> "RuntimeError", launched |-> << >> ]
    ELSE [ error |-> "none", launched |-> << page >> ]

\* open_browser(page, browser, force, logger): the exception it raises and
\* the pages it hands to webbrowser
open_browser(page, tty, force) ==
    IF ~tty /\ ~force
    THEN [ error |-> "RuntimeError", launched |-> << >> ]
    ELSE IF page = None
    THEN [ error |-> "RuntimeError", launched |-> << >> ]
    ELSE [ error |-> "none", launched |-> << page >> ]

\* the store as the import of ocd.__main__ leaves it in an empty directory
InitBootstrap ==
    /\ dbfile = TRUE
    /\ dbtable = TRUE
    /\ state = reset_to_defaults
    /\ rows = save_to_db(<< >>, state)
    /\ pc = "running"
    /\ extra = {}
    /\ defaults_original = ReprDefaults(state)
    /\ unlinked = FALSE
    /\ opened = "initialized"
    /\ result = NoResult
    /\ err = "none"
    /\ op = "open"
    /\ nsets = 0
    /\ environment = "ocd"
    /\ creator = "ocd"
    /\ bpc = "start"
    /\ cmd_name \in CmdNames
    /\ environ_key \in { None } \cup { PyStrV(k) : k \in KnownKeys }
    /\ secret \in { None } \cup { PyStrV(k) : k \in KnownKeys }
    /\ api_key = None
    /\ isatty \in BOOLEAN
    /\ force_browser \in BOOLEAN
    /\ events = << >>
    /\ outcome = "none"
    /\ args = << >>

\* OCDApp.prepare_to_run_command.  os.environ.get(name, default) has its
\* default evaluated first, so get_secret runs, and raises for a missing
\* secret, whether or not the environment variable is set.
Prepare ==
    /\ bpc = "start"
    /\ IF cmd_name \in { "help", "about" }
       THEN /\ bpc' = "done"
            /\ outcome' = "run"
            /\ UNCHANGED << events, api_key >>
       ELSE IF secret = None
       THEN /\ bpc' = "ask_browser"
            /\ events' = << << "get_secret", "openai_api_key" >>,
                            << "prompt", "browser" >> >>
            /\ UNCHANGED << outcome, api_key >>
       ELSE /\ bpc' = "done"
            /\ outcome' = "run"
            /\ api_key' = IF environ_key # None THEN environ_key ELSE secret
            /\ events' = << << "get_secret", "openai_api_key" >>,
                            << "get_secret", "openai_organization_id" >> >>
    /\ UNCHANGED << args, cmd_name, environ_key, secret, isatty, force_browser >>
    /\ UNCHANGED << dbfile, dbtable, rows, pc, state, extra,
                    defaults_original, unlinked, opened, result, err, op,
                    nsets, evars >>

\* handle_missing_api_key, from the answer to the browser prompt up to the
\* key prompt
AnswerBrowser(response) ==
    /\ bpc = "ask_browser"
    /\ LET answered == Append(events, << "answer", response >>)
           opening == open_browser(api_keys_page, isatty, force_browser)
       IN  IF ~declined(response)
           THEN IF opening.error # "none"
                THEN /\ bpc' = "done"
                     /\ outcome' = "fatal"
                     /\ events' = answered
                ELSE /\ bpc' = "ask_key"
                     /\ outcome' = outcome
                     /\ events' = answered
                            \o [i \in 1..Len(opening.launched) |->
                                    << "launch", opening.launched[i].s >>]
                            \o << << "prompt", "key" >> >>
           ELSE /\ bpc' = "done"
                /\ outcome' = "exit0"
                /\ events' = answered
    /\ UNCHANGED << args, cmd_name, environ_key, secret, api_key, isatty,
                    force_browser >>
    /\ UNCHANGED << dbfile, dbtable, rows, pc, state, extra,
                    defaults_original, unlinked, opened, result, err, op,
                    nsets, evars >>

\* a key prompt that returns the key without storing it
EnterKey_unsaved(response) ==
    /\ bpc = "ask_key"
    /\ bpc' = "done"
    /\ IF valid_key(response)
       THEN /\ outcome' = "returned"
            /\ api_key' = PyStrV(response)
            /\ secret' = secret
            /\ events' = events \o << << "key", response >> >>
       ELSE /\ outcome' = "fatal"
            /\ events' = Append(events, << "key", response >>)
            /\ UNCHANGED << secret, api_key >>
    /\ UNCHANGED << args, cmd_name, environ_key, isatty, force_browser >>
    /\ UNCHANGED << dbfile, dbtable, rows, pc, state, extra,
                    defaults_original, unlinked, opened, result, err, op,
                    nsets, evars >>

\* a key prompt that asks again after a key it rejects
EnterKey_retry(response) ==
    /\ bpc = "ask_key"
    /\ IF valid_key(response)
       THEN /\ bpc' = "done"
            /\ outcome' = "returned"
            /\ api_key' = PyStrV(response)
            /\ secret' = PyStrV(response)
            /\ events' = events
                    \o << << "key", response >>,
                          << "set_secret", "openai_api_key", response >>,
                          << "write_secrets", "" >>,
                          << "get_secret", "openai_organization_id" >> >>
       ELSE /\ bpc' = "ask_key"
            /\ outcome' = outcome
            /\ events' = events
                    \o << << "key", response >>, << "prompt", "key" >> >>
            /\ UNCHANGED << secret, api_key >>
    /\ UNCHANGED << args, cmd_name, environ_key, isatty, force_browser >>
    /\ UNCHANGED << dbfile, dbtable, rows, pc, state, extra,
                    defaults_original, unlinked, opened, result, err, op,
                    nsets, evars >>

\* handle_missing_api_key from the key typed in to its end, and the rest of
\* prepare_to_run_command when it returns
EnterKey(response) ==
    /\ bpc = "ask_key"
    /\ bpc' = "done"
    /\ IF valid_key(response)
       THEN /\ outcome' = "returned"
            /\ api_key' = PyStrV(response)
            /\ secret' = PyStrV(response)
            /\ events' = events
                    \o << << "key", response >>,
                          << "set_secret", "openai_api_key", response >>,
                          << "write_secrets", "" >>,
                          << "get_secret", "openai_organization_id" >> >>
       ELSE /\ outcome' = "fatal"
            /\ events' = Append(events, << "key", response >>)
            /\ UNCHANGED << secret, api_key >>
    /\ UNCHANGED << args, cmd_name, environ_key, isatty, force_browser >>
    /\ UNCHANGED << dbfile, dbtable, rows, pc, state, extra,
                    defaults_original, unlinked, opened, result, err, op,
                    nsets, evars >>

NextBootstrap ==
    \/ Prepare
    \/ \E response \in Answers : AnswerBrowser(response)
    \/ \E response \in KeyInputs : EnterKey(response)

SpecBootstrap == InitBootstrap /\ [][NextBootstrap]_vars

(***************************************************************************)
(* Commands run on their own: what every such specification starts from   *)
(***************************************************************************)
\* the store and the session as the import of ocd.__main__ leaves them in an
\* empty directory
FirstSession ==
    /\ dbfile = TRUE
    /\ dbtable = TRUE
    /\ state = reset_to_defaults
    /\ rows = save_to_db(<< >>, state)
    /\ pc = "running"
    /\ extra = {}
    /\ defaults_original = ReprDefaults(state)
    /\ unlinked = FALSE
    /\ opened = "initialized"
    /\ nsets = 0
    /\ environment = get_default_environment
    /\ creator = get_default_environment

\* the API key is in place and nothing was asked
NoBootstrap ==
    /\ bpc = "none"
    /\ environ_key = None
    /\ secret = None
    /\ api_key = None
    /\ isatty = FALSE
    /\ force_browser = FALSE

\* what a command's take_action leaves alone
session == << dbfile, dbtable, rows, pc, state, extra, defaults_original,
              unlinked, opened, nsets, evars >>

keyvars == << bpc, environ_key, secret, api_key, isatty, force_browser >>

\* `sub in x` for two strings
contains(x, sub) ==
    \E i \in 1..(Len(x) + 1) :
        /\ i + Len(sub) - 1 <= Len(x)
        /\ SubSeq(x, i, i + Len(sub) - 1) = sub

(***************************************************************************)
(* ranged_type                                                             *)
(***************************************************************************)
Digits == "0123456789"

IsDigit(c) == \E d \in 1..10 : SubSeq(Digits, d, d) = c

DigitValue(c) == (CHOOSE d \in 1..10 : SubSeq(Digits, d, d) = c) - 1

AllDigits(x) ==
    Len(x) > 0 /\ \A i \in 1..Len(x) : IsDigit(SubSeq(x, i, i))

RECURSIVE NatOfText(_)
NatOfText(x) ==
    IF Len(x) = 0 THEN 0
    ELSE 10 * NatOfText(SubSeq(x, 1, Len(x) - 1))
            + DigitValue(SubSeq(x, Len(x), Len(x)))

\* the text without a leading minus sign
Unsigned(x) ==
    IF Len(x) > 0 /\ SubSeq(x, 1, 1) = "-" THEN SubSeq(x, 2, Len(x)) ELSE x

Sign(x) == IF Len(x) > 0 /\ SubSeq(x, 1, 1) = "-" THEN -1 ELSE 1

\* int(arg): the number, or None for the texts int() raises ValueError on
int_of(x) ==
    IF AllDigits(Unsigned(x)) THEN PyInt(Sign(x) * NatOfText(Unsigned(x)))
    ELSE None

\* float(arg) for texts with at most one decimal, held in tenths; None for
\* the texts float() raises ValueError on
float_of(x) ==
    LET u == Unsigned(x)
    IN  IF AllDigits(u) THEN PyFloat(Sign(x) * 10 * NatOfText(u))
        ELSE IF /\ Len(u) >= 3
                /\ SubSeq(u, Len(u) - 1, Len(u) - 1) = "."
                /\ AllDigits(SubSeq(u, 1, Len(u) - 2))
                /\ IsDigit(SubSeq(u, Len(u), Len(u)))
        THEN PyFloat(Sign(x) * (10 * NatOfText(SubSeq(u, 1, Len(u) - 2))
                                  + DigitValue(SubSeq(u, Len(u), Len(u)))))
        ELSE None

\* value_type(arg)
convert(value_type, x) ==
    IF value_type = "int" THEN int_of(x) ELSE float_of(x)

\* range_checker(arg) of ranged_type(value_type, min_value, max_value): the
\* value returned, or the ArgumentTypeError raised with its message
range_checker(value_type, min_value, max_value, arg) ==
    LET candidate == convert(value_type, arg)
    IN  IF candidate = None
        THEN [ error |-> "ArgumentTypeError",
               message |-> "[-] must be a valid <class '"
                            \o value_type \o "'>",
               value |-> None ]
        ELSE IF candidate.n < min_value.n \/ candidate.n > max_value.n
        THEN [ error |-> "ArgumentTypeError",
               message |-> "[-] must be within [" \o PyStr(min_value)
                            \o ", " \o PyStr(min_value) \o "]",
               value |-> None ]
        ELSE [ error |-> "none", message |-> "", value |-> candidate ]

\* the checkers the option parsers build
RangedTypes ==
    { [ value_type |-> "float", min_value |-> PyFloat(0),
        max_value |-> PyFloat(10) ],
      [ value_type |-> "int", min_value |-> PyInt(1),
        max_value |-> PyInt(10) ],
      [ value_type |-> "float", min_value |-> PyFloat(37),
        max_value |-> PyFloat(31) ] }

\* texts given on the command line for a ranged option
ArgTexts ==
    { "0", "1", "5", "7", "10", "11", "100", "-1", "0.0", "0.5", "0.9",
      "1.0", "1.1", "2.5", "3.1", "3.7", "3.8", "abc", "", "1.x" }

InitRanged ==
    /\ FirstSession
    /\ NoBootstrap
    /\ cmd_name = "none"
    /\ \E rt \in RangedTypes, arg \in ArgTexts :
            args = [ value_type |-> rt.value_type,
                     min_value |-> rt.min_value,
                     max_value |-> rt.max_value, arg |-> arg ]
    /\ result = NoResult
    /\ err = "none"
    /\ op = "open"
    /\ events = << >>
    /\ outcome = "none"

\* argparse hands the text of the option to the checker
RangeCheck ==
    /\ op = "open"
    /\ op' = "range_checker"
    /\ result' = << range_checker(args.value_type, args.min_value,
                                  args.max_value, args.arg) >>
    /\ err' = result'[1].error
    /\ UNCHANGED << session, keyvars, cmd_name, args, events, outcome >>

NextRanged == RangeCheck

SpecRanged == InitRanged /\ [][NextRanged]_vars

(***************************************************************************)
(* images create                                                           *)
(***************************************************************************)
\* the file names pre-generated for n images
ImagePaths(basename, n) ==
    [i \in 1..n |-> basename \o "_" \o ToString(i - 1) \o ".png"]

\* image_file_path as it stands when the API is called
image_file_path(a) ==
    IF a.response_format # "b64_json" THEN ImagePaths(a.basename, a.n)
    ELSE << >>

\* fail_if_file_exists raises for one of the names checked before the call
FileExists(a) ==
    /\ a.response_format # "b64_json"
    /\ ~a.force
    /\ \E i \in 1..a.n : ImagePaths(a.basename, a.n)[i] \in a.existing

\* response.data: the API gives n images in the format asked for
ResponseData(a) ==
    [i \in 1..a.n |->
        [ kind |-> a.response_format,
          url |-> "https://images.example/" \o ToString(i - 1) ]]

\* the loop over response.data from image i on: the exception that ends it
\* and the writes and launches made
RECURSIVE ShowImages(_, _, _, _, _, _)
ShowImages(i, data, paths, tty, force, ev) ==
    IF i > Len(data) THEN [ error |-> "none", events |-> ev ]
    ELSE IF data[i].kind = "b64_json" /\ i > Len(paths)
    THEN [ error |-> "IndexError", events |-> ev ]
    ELSE LET written == IF data[i].kind = "b64_json"
                        THEN Append(ev, << "write", paths[i] >>)
                        ELSE ev
             url_path == IF data[i].kind = "b64_json"
                         THEN "file://" \o paths[i]
                         ELSE data[i].url
             opening == open_browser(PyStrV(url_path), tty, force)
         IN  IF opening.error # "none"
             THEN [ error |-> opening.error, events |-> written ]
             ELSE ShowImages(i + 1, data, paths, tty, force,
                             Append(written, << "launch", url_path >>))

\* most images asked for
MaxImages == 3

\* the longest prompt taken
MAX_IMAGES_PROMPT == 1000

ImagesArgs ==
    { [ n |-> n, response_format |-> fmt, force |-> force,
        basename |-> "IMAGE", prompt_len |-> len, existing |-> ex ] :
        n \in 1..MaxImages,
        fmt \in { utils_Defaults.IMAGES_RESPONSE_FORMATS[i].s : i \in 1..2 },
        force \in BOOLEAN,
        len \in { MAX_IMAGES_PROMPT, MAX_IMAGES_PROMPT + 1 },
        ex \in SUBSET { "IMAGE_0.png", "IMAGE_1.png" } }

InitImages ==
    /\ FirstSession
    /\ bpc = "none"
    /\ environ_key = None
    /\ secret = None
    /\ api_key = None
    /\ isatty \in BOOLEAN
    /\ force_browser = FALSE
    /\ cmd_name = "images create"
    /\ args \in ImagesArgs
    /\ result = NoResult
    /\ err = "none"
    /\ op = "open"
    /\ events = << >>
    /\ outcome = "none"

\* ImagesCreate.take_action
ImagesCreate ==
    /\ op = "open"
    /\ op' = "images create"
    /\ IF args.prompt_len > MAX_IMAGES_PROMPT
       THEN /\ err' = "ValueError"
            /\ events' = events
            /\ result' = NoResult
       ELSE IF FileExists(args)
       THEN /\ err' = "FileExistsError"
            /\ events' = events
            /\ result' = NoResult
       ELSE LET called == Append(events,
                                 << "Image.create", args.response_format >>)
                shown == ShowImages(1, ResponseData(args),
                                    image_file_path(args), isatty,
                                    force_browser, called)
            IN  /\ err' = shown.error
                /\ events' = shown.events
                /\ result' = << [ image_file_path |-> image_file_path(args),
                                  data |-> ResponseData(args) ] >>
    /\ UNCHANGED << session, keyvars, cmd_name, args, outcome >>

NextImages == ImagesCreate

SpecImages == InitImages /\ [][NextImages]_vars

(***************************************************************************)
(* The listing commands and models retrieve                                *)
(***************************************************************************)

\* the longest list the API returns, and the most permissions of one model
MaxModels == 2

\* one attribute of an API object whose value is no list
Item(k, v) == [ key |-> k, list |-> FALSE, value |-> v ]

\* one attribute of an API object whose value is a list
ListItem(k) == [ key |-> k, list |-> TRUE, value |-> "[...]" ]

\* a model_permission object, as its items()
Permission(k) ==
    << Item("id", "modelperm-" \o ToString(k)),
       Item("object", "model_permission"),
       Item("organization", "*") >>

\* a model object: its items() and its permission attribute
Model(id, nperm) ==
    [ items |-> << Item("id", id),
                   Item("object", "model"),
                   Item("owned_by", "openai"),
                   ListItem("permission"),
                   Item("root", id) >>,
      permission |-> [k \in 1..nperm |-> Permission(k)] ]

\* a fine-tune object
FineTune(id) ==
    [ items |-> << Item("id", id),
                   ListItem("events"),
                   Item("object", "fine-tune"),
                   ListItem("result_files"),
                   Item("status", "succeeded") >> ]

\* an answer of the API that is falsy
EmptyModel == [ items |-> << >>, permission |-> << >> ]

ModelIds == { "curie", "text-curie-001", "ada" }

FineTuneIds == { "ft-1", "ft-2" }

\* the sequences over S of at most n elements
SeqUpTo(S, n) == UNION { [1..k -> S] : k \in 0..n }

\* obj.get(key)
get(items, k) ==
    IF \E i \in 1..Len(items) : items[i].key = k
    THEN items[CHOOSE i \in 1..Len(items) : items[i].key = k].value
    ELSE "None"

\* model.id
id(m) == get(m.items, "id")

\* the keys of the items whose value is no list, in the order of items()
scalar_columns(items) ==
    LET NotList(it) == ~it.list
        kept == SelectSeq(items, NotList)
    IN  [i \in 1..Len(kept) |-> kept[i].key]

\* the values of the items whose value is no list, in the order of items()
scalar_data(items) ==
    LET NotList(it) == ~it.list
        kept == SelectSeq(items, NotList)
    IN  [i \in 1..Len(kept) |-> kept[i].value]

\* what take_action gives: the exception it ends with, or columns and data
Raised(e) == [ error |-> e, columns |-> << >>, data |-> << >> ]

Returned(columns, data) ==
    [ error |-> "none", columns |-> columns, data |-> data ]

\* the rows of a Lister: one row per object, one cell per column
rows_of(objects, columns) ==
    [i \in 1..Len(objects) |->
        [j \in 1..Len(columns) |-> get(objects[i].items, columns[j])]]

\* the filter that looks for the name anywhere in the id, --fuzzy or not
models_list_fuzzy(data, name, fuzzy) ==
    LET Match(model) ==
            \/ name = None
            \/ contains(id(model), name.s)
        models == SelectSeq(data, Match)
    IN  IF models = << >>
        THEN Raised("RuntimeError")
        ELSE LET columns == scalar_columns(models[1].items)
             IN  Returned(columns, rows_of(models, columns))

\* ModelsList.take_action on the list data the API returned
models_list(data, name, fuzzy) ==
    LET Match(model) ==
            \/ name = None
            \/ name # None /\ ~fuzzy /\ id(model) = name.s
            \/ name # None /\ fuzzy /\ contains(id(model), name.s)
        models == SelectSeq(data, Match)
    IN  IF models = << >>
        THEN Raised("RuntimeError")
        ELSE LET columns == scalar_columns(models[1].items)
                 data_ == rows_of(models, columns)
             IN  IF Len(data_) = 0
                 THEN Raised("SystemExit(1)")
                 ELSE Returned(columns, data_)

\* FineTuneList.take_action on the list data the API returned
fine_tune_list(data) ==
    IF data = << >>
    THEN Raised("RuntimeError")
    ELSE LET columns == scalar_columns(data[1].items)
             data_ == rows_of(data, columns)
         IN  IF Len(data_) = 0
             THEN Raised("SystemExit(1)")
             ELSE Returned(columns, data_)

\* DefaultsList.take_action
defaults_list(st) ==
    LET results == get_state(st, TRUE)
        columns == results[1]
        data == Tail(results)
    IN  IF Len(data) = 0
        THEN Raised("SystemExit(1)")
        ELSE Returned(columns, data)

\* the files text analyze may be given: the text of a file, with what
\* /usr/bin/file and the tokenizer say of it, or a path that cannot be read
Files ==
    { [ name |-> "a.txt", readable |-> TRUE, text |-> "one\ntwo\n",
        type |-> "ASCII text", tokens |-> 4 ],
      [ name |-> "b.txt", readable |-> TRUE, text |-> "",
        type |-> "empty", tokens |-> 0 ],
      [ name |-> "gone.txt", readable |-> FALSE, text |-> "",
        type |-> "cannot open", tokens |-> 0 ] }

\* the most files on one command line
MaxFiles == 2

\* len(string.split('\n'))
lines(string) ==
    Cardinality({ i \in 1..Len(string) : SubSeq(string, i, i) = "\n" }) + 1

\* TextAnalyze.take_action
text_analyze(files) ==
    IF \E i \in 1..Len(files) : ~files[i].readable
    THEN Raised("FileNotFoundError")
    ELSE LET columns == << "name", "type", "bytes", "lines", "tokens" >>
             data == [i \in 1..Len(files) |->
                        << files[i].name, files[i].type,
                           Len(files[i].text), lines(files[i].text),
                           files[i].tokens >>]
         IN  IF Len(data) = 0
             THEN Raised("SystemExit(1)")
             ELSE Returned(columns, data)

\* the command that shows the first permission of however many there are
models_retrieve_first(model, permission) ==
    IF model = EmptyModel
    THEN Raised("RuntimeError")
    ELSE IF permission /\ Len(model.permission) = 0
    THEN Raised("IndexError")
    ELSE LET items == IF permission
                      THEN model.permission[1]
                      ELSE model.items
             columns == scalar_columns(items)
             data == scalar_data(items)
         IN  IF Len(data) = 0
             THEN Raised("SystemExit(1)")
             ELSE Returned(columns, data)

\* ModelsRetrieve.take_action on the model the API returned
models_retrieve(model, permission) ==
    IF model = EmptyModel
    THEN Raised("RuntimeError")
    ELSE IF Len(model.permission) > 1
    THEN Raised("RuntimeError")
    ELSE IF permission /\ Len(model.permission) = 0
    THEN Raised("IndexError")
    ELSE LET items == IF permission
                      THEN model.permission[1]
                      ELSE model.items
             columns == scalar_columns(items)
             data == scalar_data(items)
         IN  IF Len(data) = 0
             THEN Raised("SystemExit(1)")
             ELSE Returned(columns, data)

\* a process that ends with status 0 whatever happened
ExitStatus_zero(error) ==
    0

\* the exit status of the process: an exception of take_action leaves
\* result at 1 and clean_up exits with it, sys.exit(1) ends the process
\* itself, and a command that returned gives the 0 of run()
ExitStatus(error) ==
    IF error = "none" THEN 0 ELSE 1

ListingCommands ==
    { "models list", "fine-tune list", "defaults list", "text analyze" }

\* the command line and what the API and the file system will answer
QueryArgs(cmd) ==
    CASE cmd = "models list" ->
            [ data : SeqUpTo({ Model(i, 1) : i \in ModelIds }, MaxModels),
              name : { None } \cup
                     { PyStrV(s) : s \in { "curie", "ada", "davinci", "" } },
              fuzzy : BOOLEAN ]
      [] cmd = "fine-tune list" ->
            [ data : SeqUpTo({ FineTune(i) : i \in FineTuneIds }, MaxModels) ]
      [] cmd = "defaults list" ->
            { [ columns |-> TRUE ] }
      [] cmd = "text analyze" ->
            [ files : SeqUpTo(Files, MaxFiles) \ { << >> } ]
      [] cmd = "models retrieve" ->
            [ model : { EmptyModel } \cup
                      { Model(i, n) : i \in ModelIds, n \in 0..MaxModels },
              permission : BOOLEAN ]

InitQueries ==
    /\ FirstSession
    /\ NoBootstrap
    /\ cmd_name \in ListingCommands \cup { "models retrieve" }
    /\ args \in QueryArgs(cmd_name)
    /\ result = NoResult
    /\ err = "none"
    /\ op = "open"
    /\ events = << >>
    /\ outcome = "none"

\* run_subcommand around a take_action that gave `taken`, to the end of the
\* process
Finish(taken) ==
    /\ op = "open"
    /\ op' = cmd_name
    /\ err' = taken.error
    /\ result' = IF taken.error = "none"
                 THEN << taken.columns, taken.data >>
                 ELSE NoResult
    /\ outcome' = "exit " \o ToString(ExitStatus(taken.error))
    /\ UNCHANGED << session, keyvars, cmd_name, args, events >>

ModelsList ==
    /\ cmd_name = "models list"
    /\ Finish(models_list(args.data, args.name, args.fuzzy))

FineTuneList ==
    /\ cmd_name = "fine-tune list"
    /\ Finish(fine_tune_list(args.data))

DefaultsList ==
    /\ cmd_name = "defaults list"
    /\ Finish(defaults_list(state))

TextAnalyze ==
    /\ cmd_name = "text analyze"
    /\ Finish(text_analyze(args.files))

ModelsRetrieve ==
    /\ cmd_name = "models retrieve"
    /\ Finish(models_retrieve(args.model, args.permission))

NextQueries ==
    \/ ModelsList
    \/ FineTuneList
    \/ DefaultsList
    \/ TextAnalyze
    \/ ModelsRetrieve

SpecQueries == InitQueries /\ [][NextQueries]_vars

(***************************************************************************)
(* The end of a session: clean_up with what the command left               *)
(***************************************************************************)

\* the commands a session may have run
SessionCommands == { "defaults set", "complete" }

\* the exceptions a command may have ended with
CommandErrors == { "RuntimeError" }

\* what run_subcommand hands to clean_up, with the options that ask for the
\* elapsed time: an exception leaves result at 1, a command that returned
\* gives the 0 of run()
CleanUpArgs ==
    { a \in [ cmd_name : SessionCommands,
              result : 0..1,
              err : { "none" } \cup CommandErrors,
              elapsed : BOOLEAN,
              verbose_level : 0..2 ] :
        a.err # "none" <=> a.result = 1 }

\* a clean_up that leaves on the error before it looks at the defaults
CleanUpAfter_exit_first(a) ==
    /\ pc = "running"
    /\ op' = "clean_up"
    /\ args' = a
    /\ cmd_name' = a.cmd_name
    /\ result' = NoResult
    /\ IF Changed /\ a.err = "none"
       THEN SaveEffect
       ELSE /\ err' = "none"
            /\ UNCHANGED << dbfile, dbtable, rows >>
    /\ events' =
          (IF Changed /\ a.err = "none"
           THEN << << "save_to_db", "defaults" >> >> ELSE << >>)
          \o (IF a.err # "none"
              THEN << << "sys.exit", ToString(a.result) >> >>
              ELSE << >>)
    /\ outcome' = "exit " \o ToString(a.result)
    /\ pc' = "idle"
    /\ state' = NoState
    /\ extra' = {}
    /\ defaults_original' = << >>
    /\ unlinked' = FALSE
    /\ opened' = "none"
    /\ nsets' = nsets
    /\ environment' = "none"
    /\ UNCHANGED << creator, keyvars >>

\* OCDApp.clean_up(cmd, result, err) and the end of the process: the events
\* are what the process did from here on, in order
CleanUpAfter(a) ==
    /\ pc = "running"
    /\ op' = "clean_up"
    /\ args' = a
    /\ cmd_name' = a.cmd_name
    /\ result' = NoResult
    /\ IF Changed
       THEN SaveEffect
       ELSE /\ err' = "none"
            /\ UNCHANGED << dbfile, dbtable, rows >>
    /\ events' =
          (IF Changed THEN << << "save_to_db", "defaults" >> >> ELSE << >>)
          \o (IF err' # "none"
              THEN << << "log", "Could not clean up" >> >>
              ELSE IF a.err # "none"
              THEN << << "sys.exit", ToString(a.result) >> >>
              ELSE IF \/ a.elapsed
                      \/ a.verbose_level > 1 /\ a.cmd_name # "complete"
              THEN << << "stderr", "elapsed time" >> >>
              ELSE << >>)
    /\ outcome' = "exit " \o ToString(a.result)
    /\ pc' = "idle"
    /\ state' = NoState
    /\ extra' = {}
    /\ defaults_original' = << >>
    /\ unlinked' = FALSE
    /\ opened' = "none"
    /\ nsets' = nsets
    /\ environment' = "none"
    /\ UNCHANGED << creator, keyvars >>

NextSessionEnd ==
    \/ \E fault \in Faults : Open(fault, get_default_environment)
    \/ \E name \in SetNames :
            \E value \in SetValues(name) : Set(name, value)
    \/ \E a \in CleanUpArgs : CleanUpAfter(a)

SpecSessionEnd == Init /\ [][NextSessionEnd]_vars

(***************************************************************************)
(* Properties, continued                                                   *)
(***************************************************************************)
\* the sqlite column type that keeps a value of a Python type as it is
SqlType(pytype) ==
    CASE pytype = "float" -> "REAL"
      [] pytype = "int" -> "INTEGER"
      [] OTHER -> "TEXT"

\* C11: the dataclass fields, default_state, the table columns and the INSERT
\* tuple are in one order, so a value saved while held in a field is loaded
\* back into that field, as its column stores it, and unchanged when it is of
\* the field's declared type.
C11_FieldOrderRoundTrip ==
    /\ default_state_keys = FieldNames
    /\ \A i \in 1..NumFields : ColumnTypes[i] = SqlType(FieldTypes[i])
    /\ op = "reopen" =>
            \A i \in 1..NumFields :
                /\ result[1][FieldNames[i]]
                        = Affinity(ColumnTypes[i], state[FieldNames[i]])
                /\ state[FieldNames[i]].t = FieldTypes[i]
                        => result[1][FieldNames[i]] = state[FieldNames[i]]

C11_Witness ==
    /\ op = "reopen"
    /\ state["N"] = PyInt(2)
    /\ state["IMAGES_N"] = PyInt(1)
    /\ result[1]["N"] = PyInt(2)
    /\ result[1]["IMAGES_N"] = PyInt(1)

\* C12: each environment selector has a store of its own, so the record a
\* session loads was written by a session run with the same selector.
C12_StorePerEnvironment ==
    (pc = "running" /\ opened = "loaded") => creator = environment

\* C13: delete_db leaves no store at the location and raises nothing, also
\* when there is none already; the next open of the location is a first
\* open, with every field at its default and one record in the table.
C13_DeleteThenFirstOpen ==
    [][ /\ (pc = "running" /\ op' = "delete") =>
                /\ ~dbfile'
                /\ ~dbtable'
                /\ rows' = << >>
                /\ err' = "none"
                /\ pc' = "running"
        /\ (pc = "idle" /\ ~dbfile /\ op' = "open" /\ err' = "none") =>
                /\ opened' = "initialized"
                /\ state' = [f \in FieldSet |-> default_state[f]]
                /\ rows' = << DefaultsRecord >>
                /\ dbfile' ]_vars

C13_Witness ==
    /\ op = "open"
    /\ opened = "initialized"
    /\ nsets > 0
    /\ rows = << DefaultsRecord >>

\* C14: an option that has a store field defaults to the value a fresh open
\* of the store loads for that field, for every subcommand.
C14_OptionDefaultsFromStore ==
    op = "get_parser" =>
        /\ err = "none"
        /\ \A f \in DOMAIN result[1] : result[1][f] = FreshOpen[f]

\* how often an event is in the log
Count(kind, arg) ==
    Cardinality({ i \in DOMAIN events : events[i] = << kind, arg >> })

\* the positions of the events of a kind
Positions(kind) == { i \in DOMAIN events : events[i][1] = kind }

\* C15: the bootstrap is entered only for a command other than help and
\* about, and only when neither OPENAI_API_KEY nor the secrets store gives a
\* key.
C15_BootstrapOnlyWithoutKey ==
    bpc = "ask_browser" =>
        /\ cmd_name \notin { "help", "about" }
        /\ environ_key = None
        /\ secret = None

C17_InvalidKeyIsFatal ==
    \A i \in Positions("key") :
        ~(startswith(events[i][2], "sk-") /\ Len(events[i][2]) = KeyLength)
            => /\ bpc = "done"
               /\ outcome = "fatal"
               /\ i = Len(events)
               /\ Positions("set_secret") = {}
               /\ Positions("write_secrets") = {}
               /\ api_key = None
               /\ secret = None

C17_Witness ==
    /\ outcome = "fatal"
    /\ Positions("key") # {}
    /\ startswith(events[Len(events)][2], "sk-")
    /\ Len(events[Len(events)][2]) = KeyLength + 1

\* C18: a key that passes the validation is handed to set_secret under
\* openai_api_key and written with write_secrets before the procedure
\* returns, and the command runs with openai.api_key equal to the key typed.
C18_ValidKeyStoredThenUsed ==
    \A i \in Positions("key") :
        (startswith(events[i][2], "sk-") /\ Len(events[i][2]) = KeyLength)
            => /\ bpc = "done"
               /\ outcome = "returned"
               /\ Len(events) >= i + 2
               /\ events[i + 1]
                    = << "set_secret", "openai_api_key", events[i][2] >>
               /\ events[i + 2] = << "write_secrets", "" >>
               /\ api_key = PyStrV(events[i][2])
               /\ secret = PyStrV(events[i][2])

C18_Witness ==
    /\ outcome = "returned"
    /\ environ_key # None
    /\ api_key = PyStrV("sk-" \o Chars(KeyLength - 3))
    /\ Positions("write_secrets") # {}

\* what the log of a single-pass run looks like
SinglePassState ==
    /\ Count("prompt", "browser") <= 1
    /\ Count("prompt", "key") <= 1
    /\ Cardinality(Positions("answer")) <= 1
    /\ Cardinality(Positions("key")) <= 1
    /\ \A i \in Positions("prompt") :
            events[i][2] = "key" =>
                \E j \in 1..(i - 1) : events[j] = << "prompt", "browser" >>
    /\ (bpc = "done") <=> (outcome # "none")
    /\ outcome \in { "none", "run", "exit0", "fatal", "returned" }
    /\ (bpc = "done" /\ Count("prompt", "browser") = 1) =>
            outcome \in { "exit0", "fatal", "returned" }
    /\ outcome \in { "exit0", "fatal", "returned" } =>
            Count("prompt", "browser") = 1

\* C19: a bootstrap run asks the browser question once and before any key
\* prompt, asks for the key at most once, and ends in one of exit 0, fatal
\* error and key returned, after which nothing more happens.
C19_SinglePass ==
    [][ /\ SinglePassState'
        /\ outcome # "none" => (outcome' = outcome /\ events' = events) ]_vars

C19_Witness ==
    /\ outcome = "fatal"
    /\ Count("prompt", "browser") = 1
    /\ Count("prompt", "key") = 1
    /\ Cardinality(Positions("key")) = 1

\* C20: open_browser launches nothing and raises when stdin is no terminal
\* and force is false; otherwise, given a page, it launches that page once.
\* A bootstrap run that is not declined, without a terminal and without
\* force, ends in the error right after the answer.
C20_BrowserNeedsTerminal ==
    /\ \A tty, force \in BOOLEAN :
            LET opening == open_browser(api_keys_page, tty, force)
            IN  IF ~tty /\ ~force
                THEN opening.error # "none" /\ opening.launched = << >>
                ELSE opening.error = "none"
                        /\ opening.launched = << api_keys_page >>
    /\ Positions("launch") # {} => (isatty \/ force_browser)
    /\ \A i \in Positions("answer") :
            events[i][2] \notin { "n", "N" } =>
                IF ~isatty /\ ~force_browser
                THEN /\ bpc = "done"
                     /\ outcome = "fatal"
                     /\ i = Len(events)
                     /\ secret = None
                ELSE /\ events[i + 1] = << "launch", api_keys_page.s >>
                     /\ Cardinality(Positions("launch")) = 1

C20_Witness ==
    /\ outcome = "fatal"
    /\ ~isatty
    /\ ~force_browser
    /\ events[Len(events)] = << "answer", "y" >>

\* C27: a save that reaches the store appends one record: the records there
\* before are there after it, unchanged and in their positions.
C27_SaveAppendsOnly ==
    [][(Save /\ ~unlinked) =>
            /\ err' = "none"
            /\ Len(rows') = Len(rows) + 1
            /\ \A i \in 1..Len(rows) : rows'[i] = rows[i]
            /\ rows'[Len(rows')]
                    = [i \in 1..NumFields |->
                          Affinity(ColumnTypes[i], state[FieldNames[i]])]]_vars

C27_Witness ==
    /\ op = "save"
    /\ err = "none"
    /\ Len(rows) = 3
    /\ rows[1] # rows[2]
    /\ rows[2] # rows[3]

\* C28: an open that finds a record writes nothing: the store is as it was
\* and every field holds the value of its column in the first record.
C28_OpenLoadedWritesNothing ==
    [][(Open("none", get_default_environment) /\ dbtable /\ Len(rows) > 0)
            => /\ store' = store
               /\ opened' = "loaded"
               /\ err' = "none"
               /\ \A i \in 1..NumFields : state'[FieldNames[i]] = rows[1][i]]_vars

C28_Witness ==
    /\ op = "open"
    /\ opened = "loaded"
    /\ Len(rows) = 2
    /\ rows[1] # rows[2]
    /\ \A i \in 1..NumFields : state[FieldNames[i]] = rows[1][i]

\* C29: an open that finds the table without a record does what an open that
\* finds no table does: the fields are the built-in defaults, one record
\* holding them is in the table, and nothing is raised.
C29_EmptyTableIsFirstOpen ==
    [][(Open("none", get_default_environment) /\ dbtable /\ rows = << >>)
            => /\ err' = "none"
               /\ pc' = "running"
               /\ opened' = "initialized"
               /\ state' = [f \in FieldSet |-> default_state[f]]
               /\ dbtable'
               /\ rows' = << DefaultsRecord >>
               /\ defaults_original' = ReprDefaults(state')]_vars

C29_Witness ==
    /\ op = "open"
    /\ opened = "initialized"
    /\ args = << "CREATE TABLE" >>
    /\ rows = << DefaultsRecord >>

\* C22: the checker turns down a value below min or above max with a message
\* that names min and max, and hands back every value from min to max.
C22_RangeCheckerCitesRange ==
    op = "range_checker" =>
        LET candidate == convert(args.value_type, args.arg)
        IN  candidate # None =>
                IF \/ candidate.n < args.min_value.n
                   \/ candidate.n > args.max_value.n
                THEN /\ result[1].error = "ArgumentTypeError"
                     /\ contains(result[1].message, PyStr(args.min_value))
                     /\ contains(result[1].message, PyStr(args.max_value))
                ELSE /\ result[1].error = "none"
                     /\ result[1].value = candidate

\* the formats whose images the command writes to files
WritesFiles(fmt) == fmt = "b64_json"

\* C23: when a file the command would write is there already and --force is
\* not given, the command fails with FileExistsError, the API is not called
\* and nothing is written, under every format whose images go to files.
C23_ExistingFileFailsBeforeCall ==
    ( /\ op = "images create"
      /\ args.prompt_len <= MAX_IMAGES_PROMPT
      /\ WritesFiles(args.response_format)
      /\ ~args.force
      /\ \E i \in 1..args.n :
            ImagePaths(args.basename, args.n)[i] \in args.existing )
        => /\ err = "FileExistsError"
           /\ Positions("Image.create") = {}
           /\ Positions("write") = {}

\* C26: every image of the response that carries b64_json data has a file
\* name pre-generated for its index, so the write never raises IndexError.
C26_PathForEveryImage ==
    (op = "images create" /\ Positions("Image.create") # {}) =>
        /\ \A i \in 1..Len(result[1].data) :
                result[1].data[i].kind = "b64_json"
                    => i <= Len(result[1].image_file_path)
        /\ err # "IndexError"

\* the elements of a sequence
Range(s) == { s[i] : i \in 1..Len(s) }

\* the number of rows a command returned
RowCount == IF result = NoResult THEN 0 ELSE Len(result[2])

\* C21: a listing command (models list, fine-tune list, defaults list, text
\* analyze) ends with exit status 1 when its result has no rows, and with
\* status 0 when it has at least one row and no error occurred
C21_ListingExitStatus ==
    op \in ListingCommands =>
        /\ RowCount = 0 => outcome = "exit 1"
        /\ (RowCount >= 1 /\ err = "none") => outcome = "exit 0"

\* models list was asked for a name no model of a non-empty list carries
C21_Witness ==
    /\ op = "models list"
    /\ Len(args.data) > 0
    /\ args.name # None
    /\ RowCount = 0
    /\ outcome = "exit 1"

\* C24: models retrieve fails with a fatal error whenever the retrieved model
\* carries more than one permission object, with or without --permission, and
\* then produces no columns and no data
C24_ManyPermissionsFatal ==
    (op = "models retrieve" /\ Len(args.model.permission) > 1) =>
        /\ err = "RuntimeError"
        /\ result = NoResult
        /\ outcome = "exit 1"

\* a model of two permissions was retrieved without --permission
C24_Witness ==
    /\ op = "models retrieve"
    /\ Len(args.model.permission) > 1
    /\ ~args.permission
    /\ err = "RuntimeError"

C30_SaveBeforeErrorExit ==
    [][(pc = "running" /\ op' = "clean_up" /\ args'.err # "none") =>
            /\ << "stderr", "elapsed time" >> \notin Range(events')
            /\ outcome' = "exit " \o ToString(args'.result)
            /\ (Changed /\ ~unlinked) =>
                   /\ Len(rows') = Len(rows) + 1
                   /\ rows'[Len(rows')] = StoredRow(state)
                   /\ events' = << << "save_to_db", "defaults" >>,
                                   << "sys.exit", ToString(args'.result) >> >>
      ]_vars

\* a command that changed a default ended with an error while the elapsed
\* time was asked for: the change is the newest record and the process left
\* with status 1
C30_Witness ==
    /\ op = "clean_up"
    /\ args.err = "RuntimeError"
    /\ args.elapsed
    /\ Len(rows) = 2
    /\ rows[1] # rows[2]
    /\ events = << << "save_to_db", "defaults" >>, << "sys.exit", "1" >> >>
    /\ outcome = "exit 1"

====
